---- MODULE Spec2Model ----
(***************************************************************************)
(* epochfs: a FUSE passthrough file system that shifts the time stamps it  *)
(* reports and stores by the distance between a configured epoch year and  *)
(* 1970.  The module models src/epochfs.c: the start-up code (main), the   *)
(* path composition (epochfs_mkfullpath), the two time conversions and     *)
(* the operation handlers, against a small model of the host's file API.   *)
(***************************************************************************)
EXTENDS Integers, Sequences, FiniteSets, TLC

VARIABLES
    phase,        \* "start" before main has run, then "mounted", "exited" or "crashed"
    optEpoch,     \* the value of the epoch= option as parsed (0: not given)
    epoch,        \* epochfs.epoch
    base_path,    \* epochfs.base_path, a sequence of characters
    stream,       \* epochfs.stream: "open" or "NULL"
    tzHours,      \* the host's local time zone, hours east of UTC
    sizeofTimeT,  \* sizeof(time_t) of the build: 4 or 8
    intWide,      \* build outcome of the int overflow in days * 24 (undefined behaviour):
                  \* TRUE the product is kept exact, FALSE it wraps to 32 bits
    nullCrash,    \* build outcome of fprintf(NULL, ...) (undefined behaviour):
                  \* TRUE the process dies, FALSE the call is ignored
    codec,        \* the time conversions applied so far to one time stamp
    times,        \* host: the time stamps stored for each object
    handles,      \* host: the open descriptors and directory streams of the process
    session,      \* the open-sessions of the host dispatcher, each with its fi->fh
    last          \* the handler that ran last: its arguments, host calls and reply

cfgVars == <<phase, optEpoch, epoch, base_path, stream, tzHours, sizeofTimeT,
             intWide, nullCrash>>
buildVars == <<tzHours, sizeofTimeT, intWide, nullCrash>>
fsVars == <<times, handles, session, last>>
vars == <<cfgVars, codec, fsVars>>

(***************************************************************************)
(* 64-bit two's complement integers (long long), as four 16-bit limbs,     *)
(* least significant first.  TLC's own integers are 32 bits wide.          *)
(***************************************************************************)
B16 == 2^16
HalfB16 == 2^15
AllOnes == B16 - 1

\* An int (32 bits, two's complement) sign-extended to long long.
LLFromInt(i) ==
    IF i >= 0
    THEN <<i % B16, i \div B16, 0, 0>>
    ELSE LET u == (i + 2147483647) + 1
         IN  <<u % B16, (u \div B16) + HalfB16, AllOnes, AllOnes>>

\* a + b in long long, wrapping modulo 2^64.
LLAdd(a, b) ==
    LET s1 == a[1] + b[1]
        s2 == a[2] + b[2] + (s1 \div B16)
        s3 == a[3] + b[3] + (s2 \div B16)
        s4 == a[4] + b[4] + (s3 \div B16)
    IN  <<s1 % B16, s2 % B16, s3 % B16, s4 % B16>>

LLNeg(a) ==
    LLAdd(<<AllOnes - a[1], AllOnes - a[2], AllOnes - a[3], AllOnes - a[4]>>,
          <<1, 0, 0, 0>>)

\* a - b in long long, wrapping modulo 2^64.
LLSub(a, b) == LLAdd(a, LLNeg(b))

\* a * k in long long for 0 <= k < 2^15, wrapping modulo 2^64.
LLMul(a, k) ==
    LET p1 == a[1] * k
        p2 == a[2] * k + (p1 \div B16)
        p3 == a[3] * k + (p2 \div B16)
        p4 == a[4] * k + (p3 \div B16)
    IN  <<p1 % B16, p2 % B16, p3 % B16, p4 % B16>>

\* The low 32 bits, read as a signed 32-bit value and widened again.
SignExt32(a) ==
    LET s == IF a[2] >= HalfB16 THEN AllOnes ELSE 0
    IN  <<a[1], a[2], s, s>>

\* The low 32 bits, read as an unsigned 32-bit value and widened.
ZeroExt32(a) == <<a[1], a[2], 0, 0>>

LLIsNeg(a) == a[4] >= HalfB16

(***************************************************************************)
(* The time conversions (EpochTimeCodec).                                  *)
(***************************************************************************)
UNIX_EPOCH_YEAR == 1970

\* The day count of the source's formula, in int arithmetic.  The years the
\* model configures keep year * 365 inside 32 bits; year > 0 guards the
\* divisions, so C's truncating division and \div agree.
epoch_days(year) ==
    (year * 365) + (IF year > 0
                    THEN ((year + 3) \div 4) - ((year - 1) \div 100)
                         + ((year - 1) \div 400)
                    ELSE 0)

\* (days * 24 * 3600LL): days * 24 is an int product, and only the product
\* with 3600LL is a long long one.  An int product that overflows is
\* undefined behaviour: the build either wraps it or keeps it exact.
epoch_ll(year) ==
    LET hours == LLMul(LLFromInt(epoch_days(year)), 24)
    IN  LLMul(IF intWide THEN hours ELSE SignExt32(hours), 3600)

\* diff_epoch_ll = local_epoch_ll - unix_epoch_ll
diff_epoch_ll == LLSub(epoch_ll(epoch), epoch_ll(UNIX_EPOCH_YEAR))

\* unix_t_ll: (long long)((unsigned long)time) when time_t is narrower than
\* 8 bytes (unsigned long is then 32 bits wide), else time itself.
unix_t_ll(time) == IF sizeofTimeT < 8 THEN ZeroExt32(time) ELSE time

\* The final cast (time_t)(...): a narrow time_t keeps the low 32 bits.
to_time_t(ll) == IF sizeofTimeT < 8 THEN SignExt32(ll) ELSE ll

epochfs_epoch_unix2local(time) == to_time_t(LLAdd(unix_t_ll(time), diff_epoch_ll))

\* local2unix written as a copy of unix2local, the offset still added.
local2unix_offset_added(time) == to_time_t(LLAdd(unix_t_ll(time), diff_epoch_ll))

epochfs_epoch_local2unix(time) == to_time_t(LLSub(unix_t_ll(time), diff_epoch_ll))

\* No time stamp drawn yet.
NoCodec == [t0 |-> <<0, 0, 0, 0>>, steps |-> <<>>, val |-> <<0, 0, 0, 0>>]

(***************************************************************************)
(* Start-up.                                                               *)
(***************************************************************************)
EpochOptions == {0 - 1, 0, 1, 1970, 2000, 250000}
BasePathOptions == {<<>>, <<"/", "b">>}
TimeZones == {0 - 5, 0, 9}

\* localtime_r(&0): tm_year of Unix time zero in the host's zone.
tm_year_of_zero == IF tzHours < 0 THEN 69 ELSE 70

\* fprintf(epochfs.stream, ...) of EPOCHFS_DEBUG_LOG and EPOCHFS_ERROR_LOG:
\* a NULL stream is undefined behaviour.
LogCrashes(s) == s = "NULL" /\ nullCrash

\* main(): open the log, log the arguments, parse the options, require
\* base_path, default the epoch, mount.
main(epochOpts) ==
    /\ phase = "start"
    /\ \E f \in {"open", "NULL"}, bp \in BasePathOptions, e \in epochOpts :
         /\ stream' = f
         /\ IF LogCrashes(f)
            THEN /\ phase' = "crashed"
                 /\ UNCHANGED <<optEpoch, epoch, base_path>>
            ELSE /\ optEpoch' = e
                 /\ base_path' = bp
                 /\ IF bp = <<>>
                    THEN phase' = "exited" /\ epoch' = e
                    ELSE /\ phase' = "mounted"
                         /\ epoch' = IF e = 0 THEN tm_year_of_zero + 1900 ELSE e
    /\ UNCHANGED <<buildVars, codec, fsVars>>

(***************************************************************************)
(* Path composition (PathResolver).                                        *)
(***************************************************************************)
PATH_MAX == 5

Min(a, b) == IF a < b THEN a ELSE b

\* memcpy(fullpathname, base_path, PATH_MAX) leaves base_path, its NUL and
\* whatever followed it in memory; strncat then appends, at that NUL, at most
\* PATH_MAX - strlen(base_path) characters of pathname and one more NUL.
\* str is the string the buffer then holds, overrun whether the NUL was
\* written past the PATH_MAX bytes of the buffer.
epochfs_mkfullpath(pathname) ==
    LET n == PATH_MAX - Len(base_path)
        k == Min(n, Len(pathname))
    IN  [str |-> base_path \o SubSeq(pathname, 1, k),
         overrun |-> Len(base_path) + k + 1 > PATH_MAX]

\* The virtual paths the dispatcher hands over: a file, a symbolic link to
\* it, a directory, and a path too long for the buffer behind "/b".
VPaths == {<<"/", "f">>, <<"/", "l">>, <<"/", "d">>, <<"/", "f", "f", "f">>}

\* The paths the dispatcher opens.
OpenPaths == {<<"/", "f">>, <<"/", "d">>, <<"/", "f", "f", "f">>}

\* The second path of rename and link.
VPaths2 == {<<"/", "f">>, <<"/", "f", "f", "f">>}

(***************************************************************************)
(* The host's file API.                                                    *)
(***************************************************************************)
Objs == {"file", "link", "dir", "new"}

\* The object a physical path names, without following a final symbolic link.
HostObject(path) ==
    IF path = <<"/", "b", "/", "f">> THEN "file"
    ELSE IF path = <<"/", "b", "/", "l">> THEN "link"
    ELSE IF path = <<"/", "b", "/", "d">> THEN "dir"
    ELSE "none"

\* The object a path names once a final symbolic link is followed.
HostFollow(path) == IF HostObject(path) = "link" THEN "file" ELSE HostObject(path)

\* errno values: ENOENT 2, EIO 5, EBADF 9, EACCES 13, EMFILE 24, ENOSPC 28,
\* ENAMETOOLONG 36.
HostErrnos == {13}
LogErrnos == {28}

Ok == [rc |-> 0, errno |-> 0]
Fail(e) == [rc |-> 0 - 1, errno |-> e]

\* A primitive whose effect on the host the model does not track: it
\* succeeds, or fails with one of the host's error codes.
AnyOutcome == {Ok} \cup {Fail(e) : e \in HostErrnos}

\* A primitive that needs the object obj to exist.
ObjOutcome(obj) == IF obj = "none" THEN {Fail(2)} ELSE {Ok, Fail(13)}

NSessions == 2
Sessions == 1..NSessions

\* The descriptors the host gives out, from 3 on: one more than the sessions.
FdRange == 3..(3 + NSessions)
FreeFds == FdRange \ DOMAIN handles

\* open(path, flags) and opendir(path): the lowest free descriptor.
LowestFree == CHOOSE fd \in FreeFds : \A g \in FreeFds : fd <= g

NoTime == <<0, 0, 0, 0>>
NoStamp == [atime |-> NoTime, mtime |-> NoTime, ctime |-> NoTime]

InitTimes ==
    [o \in Objs |-> [atime |-> LLFromInt(100), mtime |-> LLFromInt(50),
                     ctime |-> LLFromInt(60)]]

(***************************************************************************)
(* The record of one handler call.                                         *)
(***************************************************************************)
H(prim, path, path2, fd, flags, mode) ==
    [prim |-> prim, path |-> path, path2 |-> path2, fd |-> fd, flags |-> flags,
     mode |-> mode, tb |-> NoStamp]

NoCall ==
    [op |-> "none", vpath |-> <<>>, vpath2 |-> <<>>, sess |-> 0, flags |-> {},
     mode |-> 0, os |-> 0, set |-> NoStamp, host |-> <<>>, overrun |-> FALSE,
     hostErrno |-> 0, ret |-> 0, buf |-> NoStamp]

CallOn(op, vp, vp2) == [NoCall EXCEPT !.op = op, !.vpath = vp, !.vpath2 = vp2]

\* EPOCHFS_ERROR_LOG(errno): fprintf and fflush on the log stream, which may
\* fail and set errno themselves; the handler then returns -errno.
ErrnoAfterLog(e) == {e} \cup (IF stream = "open" THEN LogErrnos ELSE {})

EPOCHFS_ERROR_LOG(e) == {0 - e2 : e2 \in ErrnoAfterLog(e)}

\* Every handler starts with EPOCHFS_DEBUG_LOG on the log stream.  A build in
\* which logging to a NULL stream ends the process has ended it in main, at
\* the log call that follows fopen, so a handler's own log call returns.
Logged == phase = "mounted" /\ ~LogCrashes(stream)

\* The stanza of the handlers that forward one call and keep nothing:
\*   rc = prim(...); if (rc < 0) { EPOCHFS_ERROR_LOG(errno); return -errno; }
\*   return 0;
Forward(call, outcomes) ==
    /\ \E o \in outcomes :
         \E r \in (IF o.rc < 0 THEN EPOCHFS_ERROR_LOG(o.errno) ELSE {0}) :
            last' = [call EXCEPT !.hostErrno = o.errno, !.ret = r]
    /\ UNCHANGED <<cfgVars, codec, times, handles, session>>

\* A handler that resolves one path and hands hostPath to the primitive.
PathCall(op, prim, vp, hostPath) ==
    [CallOn(op, vp, <<>>) EXCEPT
        !.host = <<H(prim, hostPath, <<>>, 0 - 1, {}, 0)>>,
        !.overrun = epochfs_mkfullpath(vp).overrun]

\* A handler that resolves two paths.
PathCall2(op, prim, vp, vp2) ==
    [CallOn(op, vp, vp2) EXCEPT
        !.host = <<H(prim, epochfs_mkfullpath(vp).str,
                      epochfs_mkfullpath(vp2).str, 0 - 1, {}, 0)>>,
        !.overrun = epochfs_mkfullpath(vp).overrun \/ epochfs_mkfullpath(vp2).overrun]

full(vp) == epochfs_mkfullpath(vp).str

\* statvfs is handed path, not fullpath.
epochfs_statfs ==
    /\ Logged
    /\ \E p \in VPaths : Forward(PathCall("statfs", "statvfs", p, p), AnyOutcome)

epochfs_symlink ==
    /\ Logged
    /\ \E p \in VPaths :
           Forward([PathCall("symlink", "symlink", p, full(p)) EXCEPT !.vpath2 = <<"f">>],
                   AnyOutcome)

epochfs_readlink ==
    /\ Logged
    /\ \E p \in VPaths : Forward(PathCall("readlink", "readlink", p, full(p)), AnyOutcome)

epochfs_mknod ==
    /\ Logged
    /\ \E p \in VPaths : Forward(PathCall("mknod", "mknod", p, full(p)), AnyOutcome)

epochfs_mkdir ==
    /\ Logged
    /\ \E p \in VPaths : Forward(PathCall("mkdir", "mkdir", p, full(p)), AnyOutcome)

epochfs_unlink ==
    /\ Logged
    /\ \E p \in VPaths : Forward(PathCall("unlink", "unlink", p, full(p)), AnyOutcome)

epochfs_rmdir ==
    /\ Logged
    /\ \E p \in VPaths : Forward(PathCall("rmdir", "rmdir", p, full(p)), AnyOutcome)

epochfs_rename ==
    /\ Logged
    /\ \E p \in VPaths, q \in VPaths2 :
           Forward(PathCall2("rename", "rename", p, q), AnyOutcome)

epochfs_link ==
    /\ Logged
    /\ \E p \in VPaths, q \in VPaths2 :
           Forward(PathCall2("link", "link", p, q), AnyOutcome)

epochfs_chmod ==
    /\ Logged
    /\ \E p \in VPaths : Forward(PathCall("chmod", "chmod", p, full(p)), AnyOutcome)

epochfs_chown ==
    /\ Logged
    /\ \E p \in VPaths : Forward(PathCall("chown", "chown", p, full(p)), AnyOutcome)

epochfs_truncate ==
    /\ Logged
    /\ \E p \in VPaths : Forward(PathCall("truncate", "truncate", p, full(p)), AnyOutcome)

epochfs_access ==
    /\ Logged
    /\ \E p \in VPaths : Forward(PathCall("access", "access", p, full(p)), AnyOutcome)

epochfs_setxattr ==
    /\ Logged
    /\ \E p \in VPaths : Forward(PathCall("setxattr", "lsetxattr", p, full(p)), AnyOutcome)

epochfs_getxattr ==
    /\ Logged
    /\ \E p \in VPaths : Forward(PathCall("getxattr", "lgetxattr", p, full(p)), AnyOutcome)

epochfs_listxattr ==
    /\ Logged
    /\ \E p \in VPaths : Forward(PathCall("listxattr", "llistxattr", p, full(p)), AnyOutcome)

epochfs_removexattr ==
    /\ Logged
    /\ \E p \in VPaths :
           Forward(PathCall("removexattr", "lremovexattr", p, full(p)), AnyOutcome)

(***************************************************************************)
(* The handlers that report and set time stamps.                           *)
(***************************************************************************)
\* buf->st_atime, st_mtime and st_ctime, each through epochfs_epoch_unix2local.
Presented(st) ==
    [atime |-> epochfs_epoch_unix2local(st.atime),
     mtime |-> epochfs_epoch_unix2local(st.mtime),
     ctime |-> epochfs_epoch_unix2local(st.ctime)]

\* lstat(fullpathname, buf); a failure returns -errno without logging it.
epochfs_getattr ==
    /\ Logged
    /\ \E p \in VPaths :
           LET obj == HostObject(full(p))
               call == PathCall("getattr", "lstat", p, full(p))
           IN  /\ \E o \in ObjOutcome(obj) :
                    last' = IF o.rc < 0
                            THEN [call EXCEPT !.hostErrno = o.errno, !.ret = 0 - o.errno]
                            ELSE [call EXCEPT !.buf = Presented(times[obj])]
               /\ UNCHANGED <<cfgVars, codec, times, handles, session>>

\* The struct utimbuf values the dispatcher hands to utime, as presented times.
UtimeInputs ==
    {[atime |-> LLFromInt(946684900), mtime |-> LLFromInt(0 - 7), ctime |-> NoTime]}

\* times->actime and times->modtime through epochfs_epoch_local2unix, then
\* utime(fullpathname, times), which follows a final symbolic link.
epochfs_utime ==
    /\ Logged
    /\ \E p \in VPaths, tb \in UtimeInputs :
           LET conv == [atime |-> epochfs_epoch_local2unix(tb.atime),
                        mtime |-> epochfs_epoch_local2unix(tb.mtime),
                        ctime |-> NoTime]
               obj == HostFollow(full(p))
               call == [CallOn("utime", p, <<>>) EXCEPT
                           !.set = tb,
                           !.host = <<[H("utime", full(p), <<>>, 0 - 1, {}, 0)
                                         EXCEPT !.tb = conv]>>,
                           !.overrun = epochfs_mkfullpath(p).overrun]
           IN  \E o \in ObjOutcome(obj) :
                 /\ \E r \in (IF o.rc < 0 THEN EPOCHFS_ERROR_LOG(o.errno) ELSE {0}) :
                       last' = [call EXCEPT !.hostErrno = o.errno, !.ret = r]
                 /\ times' = IF o.rc < 0 THEN times
                             ELSE [times EXCEPT ![obj].atime = conv.atime,
                                                ![obj].mtime = conv.mtime]
                 /\ UNCHANGED <<cfgVars, codec, handles, session>>

(***************************************************************************)
(* The open-sessions: fi->fh holds the descriptor or the DIR pointer.      *)
(***************************************************************************)
\* os is the handle the host gave out for the session, kept beside fi->fh.
\* flags is fi->flags, the open flags the caller asked for.
NoSession == [state |-> "Unopened", fh |-> 0, os |-> 0, flags |-> {}]

\* fi->fh = (unsigned long)fd and fi->fh = (unsigned long)dirp: a descriptor
\* is not negative, and the value is kept.
FhOfFd(fd) == fd

\* fi->fh read back as another descriptor than the one stored.
FdOfFh_other(fh) == fh + 1

\* int fd = (int)fi->fh and DIR *dirp = (DIR *)fi->fh; (unsigned long)-1,
\* which release stores, reads back as -1.
FdOfFh(fh) == fh

OpenFlagSets == {{"O_RDONLY"}, {"O_RDWR"}}
CreateFlagSets == {{"O_WRONLY", "O_CREAT", "O_TRUNC"}, {"O_RDWR", "O_CREAT"}}
CreateModes == {420}

CanRead(flags) == "O_RDONLY" \in flags \/ "O_RDWR" \in flags
CanWrite(flags) == "O_WRONLY" \in flags \/ "O_RDWR" \in flags

\* open(path, flags): ENOENT, EISDIR (21), EMFILE or EACCES, or a descriptor.
HostOpenOutcome(path, flags) ==
    LET obj == HostFollow(path)
    IN  IF obj = "none" /\ "O_CREAT" \notin flags THEN {Fail(2)}
        ELSE IF obj = "dir" /\ CanWrite(flags) THEN {Fail(21)}
        ELSE IF FreeFds = {} THEN {Fail(24)}
        ELSE {Ok, Fail(13)}

\* opendir(path): ENOENT, ENOTDIR (20), EMFILE or EACCES, or a stream.
HostOpendirOutcome(path) ==
    LET obj == HostFollow(path)
    IN  IF obj = "none" THEN {Fail(2)}
        ELSE IF obj # "dir" THEN {Fail(20)}
        ELSE IF FreeFds = {} THEN {Fail(24)}
        ELSE {Ok, Fail(13)}

HostHandle(kind, path, flags) ==
    [kind |-> kind, flags |-> flags,
     obj |-> IF HostFollow(path) = "none" THEN "new" ELSE HostFollow(path)]

\* Every open, create or opendir call comes with a fuse_file_info of its
\* own: the sessions are taken in order and none is used twice.
HasNextSession == \E s \in Sessions : session[s].state = "Unopened"
NextSession == CHOOSE s \in Sessions :
                   /\ session[s].state = "Unopened"
                   /\ \A t \in Sessions : t < s => session[t].state # "Unopened"

\* What open, create and opendir share once the host has answered: on
\* failure log and return -errno, on success store the handle in fi->fh.
Opened(call, s, kind, hostFlags, outcomes) ==
    \E o \in outcomes :
      /\ \E r \in (IF o.rc < 0 THEN EPOCHFS_ERROR_LOG(o.errno) ELSE {0}) :
            last' = [call EXCEPT !.hostErrno = o.errno, !.ret = r]
      /\ IF o.rc < 0
         THEN UNCHANGED <<handles, session>>
         ELSE /\ handles' = (LowestFree :> HostHandle(kind, call.host[1].path, hostFlags))
                            @@ handles
              /\ session' = [session EXCEPT ![s] =
                                [state |-> "Open", fh |-> FhOfFd(LowestFree),
                                 os |-> LowestFree, flags |-> call.flags]]
      /\ UNCHANGED <<cfgVars, codec, times>>

epochfs_opendir ==
    /\ Logged
    /\ HasNextSession
    /\ \E p \in OpenPaths, s \in Sessions :
           /\ s = NextSession
           /\ Opened([PathCall("opendir", "opendir", p, full(p)) EXCEPT
                      !.sess = s, !.flags = {"O_RDONLY", "O_DIRECTORY"}],
                     s, "DIR", {"O_RDONLY", "O_DIRECTORY"},
                     HostOpendirOutcome(full(p)))

\* fd = open(fullpathname, fi->flags)
epochfs_open ==
    /\ Logged
    /\ HasNextSession
    /\ \E p \in OpenPaths, s \in Sessions, fl \in OpenFlagSets :
           /\ s = NextSession
           /\ Opened([CallOn("open", p, <<>>) EXCEPT
                         !.sess = s, !.flags = fl,
                         !.host = <<H("open", full(p), <<>>, 0 - 1, fl, 0)>>,
                         !.overrun = epochfs_mkfullpath(p).overrun],
                     s, "fd", fl, HostOpenOutcome(full(p), fl))

\* The flags creat(path, mode) opens with: open(path, O_CREAT|O_WRONLY|O_TRUNC, mode).
CreatFlags == {"O_CREAT", "O_WRONLY", "O_TRUNC"}

\* fd = creat(fullpathname, mode); fi->flags is logged and not passed on.
epochfs_create ==
    /\ Logged
    /\ HasNextSession
    /\ \E p \in OpenPaths, s \in Sessions, fl \in CreateFlagSets, m \in CreateModes :
           /\ s = NextSession
           /\ Opened([CallOn("create", p, <<>>) EXCEPT
                         !.sess = s, !.flags = fl, !.mode = m,
                         !.host = <<H("creat", full(p), <<>>, 0 - 1, CreatFlags, m)>>,
                         !.overrun = epochfs_mkfullpath(p).overrun],
                     s, "fd", CreatFlags, HostOpenOutcome(full(p), CreatFlags))

(***************************************************************************)
(* The handlers that work on an open handle.  The dispatcher calls them    *)
(* for a session that is open, file handlers for a file session and        *)
(* directory handlers for a directory session.                             *)
(***************************************************************************)
OpenSessions == {s \in Sessions : session[s].state = "Open"}
FileSessions == {s \in OpenSessions : handles[session[s].os].kind = "fd"}
DirSessions == {s \in OpenSessions : handles[session[s].os].kind = "DIR"}

\* A primitive on a descriptor: EBADF when it is not open or not open for
\* what the primitive needs, else success or EIO.
FdOutcome(fd, need) ==
    IF fd \notin DOMAIN handles THEN {Fail(9)}
    ELSE IF need = "read" /\ ~CanRead(handles[fd].flags) THEN {Fail(9)}
    ELSE IF need = "write" /\ ~CanWrite(handles[fd].flags) THEN {Fail(9)}
    ELSE {Ok, Fail(5)}

\* pread and pwrite of one byte: the count moved, or a failure.
CountOutcome(fd, need) ==
    IF Ok \in FdOutcome(fd, need)
    THEN {[rc |-> n, errno |-> 0] : n \in 0..1} \cup {Fail(5)}
    ELSE FdOutcome(fd, need)

FdCall(op, prim, s) ==
    [CallOn(op, <<>>, <<>>) EXCEPT
        !.sess = s, !.os = session[s].os,
        !.host = <<H(prim, <<>>, <<>>, FdOfFh(session[s].fh), {}, 0)>>]

\* The stanza of read and write: the count on success, -errno after the log.
ForwardCount(call, outcomes) ==
    /\ \E o \in outcomes :
         \E r \in (IF o.rc < 0 THEN EPOCHFS_ERROR_LOG(o.errno) ELSE {o.rc}) :
            last' = [call EXCEPT !.hostErrno = o.errno, !.ret = r]
    /\ UNCHANGED <<cfgVars, codec, times, handles, session>>

\* readdir(dirp) until it returns NULL; what it reports is not looked at.
epochfs_readdir ==
    /\ Logged
    /\ \E s \in DirSessions :
           /\ last' = FdCall("readdir", "readdir", s)
           /\ UNCHANGED <<cfgVars, codec, times, handles, session>>

epochfs_read ==
    /\ Logged
    /\ \E s \in FileSessions :
           ForwardCount(FdCall("read", "pread", s),
                        CountOutcome(FdOfFh(session[s].fh), "read"))

epochfs_write ==
    /\ Logged
    /\ \E s \in FileSessions :
           ForwardCount(FdCall("write", "pwrite", s),
                        CountOutcome(FdOfFh(session[s].fh), "write"))

epochfs_fsync ==
    /\ Logged
    /\ \E s \in FileSessions, datasync \in BOOLEAN :
           Forward(FdCall("fsync", IF datasync THEN "fdatasync" ELSE "fsync", s),
                   FdOutcome(FdOfFh(session[s].fh), "any"))

\* fdatasync(fd), then fsync(fd) when that succeeded.
epochfs_flush ==
    /\ Logged
    /\ \E s \in FileSessions :
           LET fd == FdOfFh(session[s].fh)
               c1 == FdCall("flush", "fdatasync", s)
               c2 == [c1 EXCEPT !.host = Append(@, H("fsync", <<>>, <<>>, fd, {}, 0))]
           IN  \E o1 \in FdOutcome(fd, "any") :
                 IF o1.rc < 0
                 THEN Forward(c1, {o1})
                 ELSE Forward(c2, FdOutcome(fd, "any"))

epochfs_ftruncate ==
    /\ Logged
    /\ \E s \in FileSessions :
           Forward(FdCall("ftruncate", "ftruncate", s),
                   FdOutcome(FdOfFh(session[s].fh), "write"))

\* fstat(fd, buf), then the three conversions.
epochfs_fgetattr ==
    /\ Logged
    /\ \E s \in FileSessions :
           LET fd == FdOfFh(session[s].fh)
               call == FdCall("fgetattr", "fstat", s)
           IN  /\ \E o \in FdOutcome(fd, "any") :
                    IF o.rc < 0
                    THEN \E r \in EPOCHFS_ERROR_LOG(o.errno) :
                           last' = [call EXCEPT !.hostErrno = o.errno, !.ret = r]
                    ELSE last' = [call EXCEPT !.buf = Presented(times[handles[fd].obj])]
               /\ UNCHANGED <<cfgVars, codec, times, handles, session>>

epochfs_flock ==
    /\ Logged
    /\ \E s \in FileSessions :
           Forward(FdCall("flock", "flock", s), FdOutcome(FdOfFh(session[s].fh), "any"))

epochfs_fallocate ==
    /\ Logged
    /\ \E s \in FileSessions :
           Forward(FdCall("fallocate", "fallocate", s),
                   FdOutcome(FdOfFh(session[s].fh), "write"))

epochfs_lock ==
    /\ Logged
    /\ \E s \in FileSessions :
           Forward(FdCall("lock", "fcntl", s), FdOutcome(FdOfFh(session[s].fh), "any"))

\* close(fd) and closedir(dirp) give the handle back to the host also when
\* they report an error, unless the handle was not open (EBADF).
Closed(h) == [f \in DOMAIN handles \ {h} |-> handles[f]]

\* What release and releasedir share: close the handle; on failure log and
\* return -errno, on success (release only) set fi->fh to -1.  The session
\* ends whatever the handler returns, and the dispatcher discards its fi.
Released(call, s) ==
    LET h == call.host[1].fd
    IN  \E o \in FdOutcome(h, "any") :
          /\ \E r \in (IF o.rc < 0 THEN EPOCHFS_ERROR_LOG(o.errno) ELSE {0}) :
                last' = [call EXCEPT !.hostErrno = o.errno, !.ret = r]
          /\ handles' = Closed(h)
          /\ session' = [session EXCEPT ![s] = [NoSession EXCEPT !.state = "Released"]]
          /\ UNCHANGED <<cfgVars, codec, times>>

\* closedir(dirp); fi->fh is left as it is.
epochfs_releasedir ==
    /\ Logged
    /\ \E s \in DirSessions :
           Released(FdCall("releasedir", "closedir", s), s)

\* close(fd), then fi->fh = (unsigned long)-1.
epochfs_release ==
    /\ Logged
    /\ \E s \in FileSessions :
           Released(FdCall("release", "close", s), s)

(***************************************************************************)
(* The file system as mounted: start-up, then any handler.                 *)
(***************************************************************************)
InitFs ==
    /\ times = InitTimes
    /\ handles = << >>
    /\ session = [s \in Sessions |-> NoSession]
    /\ last = NoCall

MountEpochOptions == {2000}

Init ==
    /\ phase = "start"
    /\ optEpoch = 0
    /\ epoch = 0
    /\ base_path = <<>>
    /\ stream = "NULL"
    /\ tzHours = 0
    /\ sizeofTimeT \in {4, 8}
    /\ intWide = FALSE
    /\ nullCrash \in BOOLEAN
    /\ codec = NoCodec
    /\ InitFs

mainMount == main(MountEpochOptions)

\* The handlers that take a path and keep no handle.
Next ==
    \/ mainMount
    \/ epochfs_statfs
    \/ epochfs_getattr
    \/ epochfs_access
    \/ epochfs_readlink
    \/ epochfs_mknod
    \/ epochfs_mkdir
    \/ epochfs_symlink
    \/ epochfs_unlink
    \/ epochfs_rmdir
    \/ epochfs_rename
    \/ epochfs_link
    \/ epochfs_chmod
    \/ epochfs_chown
    \/ epochfs_truncate
    \/ epochfs_utime
    \/ epochfs_setxattr
    \/ epochfs_getxattr
    \/ epochfs_listxattr
    \/ epochfs_removexattr

Spec == Init /\ [][Next]_vars

\* The handlers that open, use and release a handle.
NextHandles ==
    \/ mainMount
    \/ epochfs_opendir
    \/ epochfs_readdir
    \/ epochfs_releasedir
    \/ epochfs_open
    \/ epochfs_create
    \/ epochfs_flush
    \/ epochfs_fsync
    \/ epochfs_read
    \/ epochfs_write
    \/ epochfs_ftruncate
    \/ epochfs_fgetattr
    \/ epochfs_flock
    \/ epochfs_fallocate
    \/ epochfs_lock
    \/ epochfs_release

\* The handlers of NextHandles do not depend on the width of time_t, and a
\* build that ends the process on a NULL log stream never gets to them with
\* one: one width is drawn, and the build that goes on with a NULL stream.
InitHandles == Init /\ sizeofTimeT = 8 /\ nullCrash = FALSE

SpecHandles == InitHandles /\ [][NextHandles]_vars

(***************************************************************************)
(* The conversions applied to time stamps: one time stamp is drawn, then   *)
(* converted one way and back.                                             *)
(***************************************************************************)
INT64_MAX == <<AllOnes, AllOnes, AllOnes, HalfB16 - 1>>
INT64_MIN == <<0, 0, 0, HalfB16>>
INT32_MIN == <<0, HalfB16, AllOnes, AllOnes>>

Times32 == {LLFromInt(0), LLFromInt(1), LLFromInt(0 - 1), LLFromInt(86399),
            LLFromInt(946684800), LLFromInt(2147483647), INT32_MIN}
Times64 == Times32 \cup {INT64_MAX, INT64_MIN, LLAdd(LLFromInt(2147483647), LLFromInt(1))}

TimeInputs == IF sizeofTimeT < 8 THEN Times32 ELSE Times64

CodecPick ==
    /\ phase = "mounted"
    /\ \E t \in TimeInputs : codec' = [t0 |-> t, steps |-> <<>>, val |-> t]
    /\ UNCHANGED <<cfgVars, fsVars>>

CodecUnix2Local ==
    /\ phase = "mounted"
    /\ Len(codec.steps) < 2
    /\ codec' = [codec EXCEPT !.steps = Append(@, "unix2local"),
                              !.val = epochfs_epoch_unix2local(@)]
    /\ UNCHANGED <<cfgVars, fsVars>>

CodecLocal2Unix ==
    /\ phase = "mounted"
    /\ Len(codec.steps) < 2
    /\ codec' = [codec EXCEPT !.steps = Append(@, "local2unix"),
                              !.val = epochfs_epoch_local2unix(@)]
    /\ UNCHANGED <<cfgVars, fsVars>>

InitCodec ==
    /\ phase = "start"
    /\ optEpoch = 0
    /\ epoch = 0
    /\ base_path = <<>>
    /\ stream = "NULL"
    /\ tzHours \in TimeZones
    /\ sizeofTimeT \in {4, 8}
    /\ intWide \in BOOLEAN
    /\ nullCrash \in BOOLEAN
    /\ codec = NoCodec
    /\ InitFs

mainCodec == main(EpochOptions)

NextCodec == mainCodec \/ CodecPick \/ CodecUnix2Local \/ CodecLocal2Unix

SpecCodec == InitCodec /\ [][NextCodec]_vars

(***************************************************************************)
(* The properties.                                                         *)
(***************************************************************************)

\* C1: converting a time stamp to presented time and back to physical time,
\* or to physical time and back to presented time, gives the time stamp
\* again, for every configured epoch year, for negative time stamps, and for
\* a 32-bit time_t whose result is cut to its width at the final assignment.
C1_RoundTrip ==
    (Len(codec.steps) = 2 /\ codec.steps[1] # codec.steps[2]) => codec.val = codec.t0

\* A negative time stamp on a 32-bit time_t, epoch 2000, converted to
\* presented time, where the 64-bit sum had to be cut to 32 bits, and back.
C1_Witness ==
    /\ sizeofTimeT = 4 /\ epoch = 2000 /\ LLIsNeg(codec.t0)
    /\ codec.steps = <<"unix2local", "local2unix">>
    /\ LLAdd(unix_t_ll(codec.t0), diff_epoch_ll) # epochfs_epoch_unix2local(codec.t0)
    /\ codec.val = codec.t0

IsLeap(y) == (y % 4 = 0 /\ y % 100 # 0) \/ y % 400 = 0

\* The signed number of days from 1970-01-01 to y-01-01, year by year.
DaysSince1970(y) ==
    IF y >= 1970
    THEN (y - 1970) * 365 + Cardinality({k \in 1970..(y - 1) : IsLeap(k)})
    ELSE 0 - ((1970 - y) * 365 + Cardinality({k \in y..1969 : IsLeap(k)}))

GregorianOffset(y) == LLMul(LLMul(LLFromInt(DaysSince1970(y)), 24), 3600)

\* C2: for every epoch year > 0 the offset the conversion adds is 86400
\* times the Gregorian day count from 1970-01-01 to the first day of the
\* epoch year; with epoch 2000, presenting time stamp 0 gives 946684800.
C2_Original ==
    (phase = "mounted" /\ epoch > 0) =>
        /\ diff_epoch_ll = GregorianOffset(epoch)
        /\ (epoch = 2000 /\ codec.steps = <<"unix2local">> /\ codec.t0 = LLFromInt(0))
              => codec.val = LLFromInt(946684800)

\* C3: with the epoch option unset or 0, start-up resolves the epoch year
\* to 1970, the offset is zero and presenting a time stamp leaves it as it
\* is, in every time zone of the host.
C3_Original ==
    (phase = "mounted" /\ optEpoch = 0) =>
        /\ epoch = 1970
        /\ diff_epoch_ll = LLFromInt(0)
        /\ codec.steps = <<"unix2local">> => codec.val = codec.t0

\* base_path and the virtual path fit the path buffer, with its NUL.
Fits(vp) == Len(base_path) + Len(vp) < PATH_MAX

\* C4: every handler that takes a virtual path hands the host base_path
\* followed by that path (both paths for rename and link) whenever the
\* concatenation fits, and never the virtual path itself.
C4_Original ==
    (last.op # "none" /\ last.vpath # <<>> /\ Fits(last.vpath)) =>
        \A i \in DOMAIN last.host :
            /\ last.host[i].path = base_path \o last.vpath
            /\ (last.op \in {"rename", "link"} /\ Fits(last.vpath2))
                  => last.host[i].path2 = base_path \o last.vpath2

\* C5: when base_path and the virtual path together exceed the maximum path
\* length, the handler returns the name-too-long error (ENAMETOOLONG, 36),
\* calls no host primitive and writes nothing past the path buffer.
C5_Original ==
    (last.op # "none" /\ Len(base_path) + Len(last.vpath) > PATH_MAX) =>
        /\ last.ret = 0 - 36
        /\ last.host = <<>>
        /\ ~last.overrun

\* C6: when the host primitive fails with error code e, the handler returns
\* exactly -e, also when the log write made before the return fails or
\* changes errno.
C6_Original == (last.op # "none" /\ last.hostErrno # 0) => last.ret = 0 - last.hostErrno

\* C7: after set-times(p, A, M) succeeded, the object get-attributes(p)
\* reads holds the physical times of A and M, and a get-attributes(p) that
\* follows at once reports A and M, for every kind of object, symbolic
\* links included.
C7_Original ==
    [][(/\ last.op = "utime" /\ last.ret = 0
        /\ last'.op = "getattr" /\ last'.vpath = last.vpath /\ last'.hostErrno = 0)
       => (/\ times[HostObject(last'.host[1].path)].atime
                 = epochfs_epoch_local2unix(last.set.atime)
           /\ times[HostObject(last'.host[1].path)].mtime
                 = epochfs_epoch_local2unix(last.set.mtime)
           /\ last'.buf.atime = last.set.atime
           /\ last'.buf.mtime = last.set.mtime)]_vars

HandleOps == {"readdir", "releasedir", "read", "write", "fsync", "flush", "ftruncate",
              "fgetattr", "flock", "fallocate", "lock", "release"}

\* C8: the host has exactly one open handle for each open session and none
\* besides: a handle comes into being only with a successful open, create
\* or opendir, a failed one leaves none, every call on a session is made on
\* the handle the host gave at its open, and release and releasedir give
\* that handle back.
C8_HandleLifecycle ==
    /\ Cardinality(DOMAIN handles) = Cardinality(OpenSessions)
    /\ \A s \in OpenSessions :
          session[s].os \in DOMAIN handles
    /\ \A s, t \in OpenSessions : s # t => session[s].os # session[t].os
    /\ last.op \in HandleOps => \A i \in DOMAIN last.host : last.host[i].fd = last.os
    /\ last.op \in {"release", "releasedir"} => last.os \notin DOMAIN handles
    /\ (last.op \in {"open", "create", "opendir"} /\ last.hostErrno # 0)
          => session[last.sess].state # "Open"

\* A release whose close reported an error, while another session stays
\* open on its own handle.
C8_Witness ==
    /\ last.op = "release" /\ last.hostErrno = 5
    /\ Cardinality(OpenSessions) = 1
    /\ Cardinality(DOMAIN handles) = 1

\* C9: when the log file could not be opened, start-up still goes on to
\* mount (or to the exit for a missing base_path) and no call crashes.
C9_Original == (phase # "start" /\ stream = "NULL") => phase # "crashed"

\* C10: open and create hand the caller's open flags (create also its mode)
\* to the host unchanged, so the handle of a session has the access mode the
\* caller asked for, and a read on a session created read-write is accepted.
C10_Original ==
    /\ (last.op \in {"open", "create"} /\ last.host # <<>>) =>
          /\ last.host[1].flags = last.flags
          /\ last.op = "create" => last.host[1].mode = last.mode
    /\ \A s \in FileSessions : handles[session[s].os].flags = session[s].flags
    /\ (last.op = "read" /\ session[last.sess].state = "Open"
          /\ CanRead(session[last.sess].flags)) => last.hostErrno # 9

====
